---- MODULE Spec2Model ----
(***************************************************************************)
(* Service methods of the go-atlassian client: admin organization          *)
(* directory (Activity, Remove, Suspend, Restore), confluence comments      *)
(* (Gets), confluence templates (Create, Update, Get), jira ADF search      *)
(* (Checks, Get, Post) and the span helpers of the tracing layer.           *)
(*                                                                          *)
(* A Go string is a sequence of one-character strings, so that formatting,  *)
(* joining, escaping and encoding are computed character by character.      *)
(* A pointer, slice or envelope that can be nil is a record with an isNil   *)
(* field.  One invocation of a method is one action; what the method does   *)
(* to its span and to the Connector is recorded, in program order, in       *)
(* trace.                                                                   *)
(***************************************************************************)
EXTENDS Integers, Sequences, FiniteSets, TLC

VARIABLES
  pc,      \* "idle": no call in progress; "done": a method has returned
  method,  \* the method that was invoked
  args,    \* its arguments
  conn,    \* how the Connector behaves during the invocation
  trace,   \* span and Connector operations of the invocation, in order
  ret,     \* the returned tuple
  locals,  \* the endpoint and query the method built
  prev     \* outcome of the preceding invocation against the same Connector

vars == <<pc, method, args, conn, trace, ret, locals, prev>>

----------------------------------------------------------------------------
(* Bounds of the model. *)

\* longest caller-supplied list of a multi-value parameter
MaxList == 2
\* largest startAt
MaxStartAt == 1

----------------------------------------------------------------------------
(* Strings: the parts of strings, strconv, fmt and net/url the methods use. *)

\* the printable ASCII characters, codes 32..126 in order (code 96, the
\* backquote, cannot be written in a string and is spelled out)
Ascii ==
  <<" ","!","\"","#","$","%","&","'","(",")","*","+",",","-",".","/",
    "0","1","2","3","4","5","6","7","8","9",":",";","<","=",">","?",
    "@","A","B","C","D","E","F","G","H","I","J","K","L","M","N","O",
    "P","Q","R","S","T","U","V","W","X","Y","Z","[","\\","]","^","_",
    "backquote","a","b","c","d","e","f","g","h","i","j","k","l","m","n","o",
    "p","q","r","s","t","u","v","w","x","y","z","{","|","}","~">>

\* the character code of each character
CharCode == [c \in {Ascii[i] : i \in 1..Len(Ascii)} |->
           31 + (CHOOSE i \in 1..Len(Ascii) : Ascii[i] = c)]

Ord(c) == CharCode[c]

Digits == <<"0","1","2","3","4","5","6","7","8","9">>

UpperHex == <<"0","1","2","3","4","5","6","7","8","9","A","B","C","D","E","F">>

\* the letters and digits
Alnum ==
  {c \in DOMAIN CharCode :
     \/ (CharCode[c] >= CharCode["0"] /\ CharCode[c] <= CharCode["9"])
     \/ (CharCode[c] >= CharCode["A"] /\ CharCode[c] <= CharCode["Z"])
     \/ (CharCode[c] >= CharCode["a"] /\ CharCode[c] <= CharCode["z"])}

IsAlnum(c) == c \in Alnum

RECURSIVE ItoaNat(_)
ItoaNat(n) == IF n < 10 THEN <<Digits[n + 1]>>
              ELSE ItoaNat(n \div 10) \o <<Digits[(n % 10) + 1]>>

\* strconv.Itoa
Itoa(n) == IF n < 0 THEN <<"-">> \o ItoaNat(0 - n) ELSE ItoaNat(n)

\* strconv.FormatBool
FormatBool(b) == IF b THEN <<"t","r","u","e">> ELSE <<"f","a","l","s","e">>

RECURSIVE Join(_, _)
\* strings.Join
Join(elems, sep) ==
  IF Len(elems) = 0 THEN <<>>
  ELSE IF Len(elems) = 1 THEN elems[1]
  ELSE elems[1] \o sep \o Join(Tail(elems), sep)

RECURSIVE SprintInts(_)
SprintInts(ns) ==
  IF Len(ns) = 0 THEN <<>>
  ELSE IF Len(ns) = 1 THEN Itoa(ns[1])
  ELSE Itoa(ns[1]) \o <<" ">> \o SprintInts(Tail(ns))

\* fmt.Sprint of an []int: the elements separated by spaces, in brackets
Sprint(ns) == <<"[">> \o SprintInts(ns) \o <<"]">>

RECURSIVE FieldsFrom(_, _)
FieldsFrom(s, cur) ==
  IF Len(s) = 0 THEN (IF Len(cur) = 0 THEN <<>> ELSE <<cur>>)
  ELSE IF Head(s) = " "
       THEN (IF Len(cur) = 0 THEN <<>> ELSE <<cur>>) \o FieldsFrom(Tail(s), <<>>)
       ELSE FieldsFrom(Tail(s), Append(cur, Head(s)))

\* strings.Fields: the maximal runs of non-space characters
Fields(s) == FieldsFrom(s, <<>>)

\* an escape that leaves the comma as it is
EscapeCharKeepComma(c) ==
  IF IsAlnum(c) \/ c \in {"-", "_", ".", "~", ","} THEN <<c>>
  ELSE IF c = " " THEN <<"+">>
  ELSE <<"%", UpperHex[(Ord(c) \div 16) + 1], UpperHex[(Ord(c) % 16) + 1]>>

\* url.QueryEscape of one character: unreserved characters stay, a space
\* becomes "+", every other character becomes %XX with upper-case hex digits
EscapeChar(c) ==
  IF IsAlnum(c) \/ c \in {"-", "_", ".", "~"} THEN <<c>>
  ELSE IF c = " " THEN <<"+">>
  ELSE <<"%", UpperHex[(Ord(c) \div 16) + 1], UpperHex[(Ord(c) % 16) + 1]>>

RECURSIVE QueryEscape(_)
\* url.QueryEscape
QueryEscape(s) ==
  IF Len(s) = 0 THEN <<>> ELSE EscapeChar(Head(s)) \o QueryEscape(Tail(s))

RECURSIVE StrLess(_, _)
\* s < t on Go strings: byte-wise lexicographic order
StrLess(s, t) ==
  IF Len(t) = 0 THEN FALSE
  ELSE IF Len(s) = 0 THEN TRUE
  ELSE IF Head(s) # Head(t) THEN Ord(Head(s)) < Ord(Head(t))
  ELSE StrLess(Tail(s), Tail(t))

\* url.Values{}: a map from key to the list of its values
EmptyValues == [k \in {} |-> <<>>]

\* url.Values.Add: appends value to the list of key
Add(v, key, value) ==
  IF key \in DOMAIN v THEN [v EXCEPT ![key] = Append(@, value)]
  ELSE v @@ (key :> <<value>>)

RECURSIVE SortedKeys(_)
SortedKeys(ks) ==
  IF ks = {} THEN <<>>
  ELSE LET least == CHOOSE k \in ks : \A o \in ks : o = k \/ StrLess(k, o)
       IN <<least>> \o SortedKeys(ks \ {least})

RECURSIVE EncodeKey(_, _)
EncodeKey(keyEscaped, vs) ==
  IF Len(vs) = 0 THEN <<>>
  ELSE <<keyEscaped \o <<"=">> \o QueryEscape(Head(vs))>>
         \o EncodeKey(keyEscaped, Tail(vs))

RECURSIVE EncodeKeys(_, _)
EncodeKeys(v, keys) ==
  IF Len(keys) = 0 THEN <<>>
  ELSE EncodeKey(QueryEscape(Head(keys)), v[Head(keys)])
         \o EncodeKeys(v, Tail(keys))

\* url.Values.Encode: key=value pairs joined by "&", sorted by key, keys and
\* values query-escaped
Encode(v) == Join(EncodeKeys(v, SortedKeys(DOMAIN v)), <<"&">>)

----------------------------------------------------------------------------
(* Values. *)

\* a nil pointer, slice or envelope
NilPtr == [isNil |-> TRUE]

\* a nil error
NoErr == "nil"

\* new(T): the first allocation of the invocation
New(type) == [isNil |-> FALSE, type |-> type, addr |-> 1]

\* a non-nil slice
Slice(elems) == [isNil |-> FALSE, elems |-> elems]

\* a nil slice
NilSlice == [isNil |-> TRUE, elems |-> <<>>]

\* len(s) of a slice: 0 for a nil slice
GoLen(s) == Len(s.elems)

ErrNoAdminOrganization == "ErrNoAdminOrganization"
ErrNoAdminAccountID == "ErrNoAdminAccountID"
ErrNoContentID == "ErrNoContentID"
ErrNoJQL == "ErrNoJQL"

\* err.Error(): the message of an error; distinct errors have distinct
\* messages, here the error's name
ErrorText(e) ==
  CASE e = ErrNoAdminOrganization -> <<"E","r","r","N","o","A","d","m","i","n","O","r","g","a","n","i","z","a","t","i","o","n">> (* ErrNoAdminOrganization *)
    [] e = ErrNoAdminAccountID -> <<"E","r","r","N","o","A","d","m","i","n","A","c","c","o","u","n","t","I","D">> (* ErrNoAdminAccountID *)
    [] e = ErrNoContentID -> <<"E","r","r","N","o","C","o","n","t","e","n","t","I","D">> (* ErrNoContentID *)
    [] e = ErrNoJQL -> <<"E","r","r","N","o","J","Q","L">>
    [] e = "errNewRequest" -> <<"e","r","r","N","e","w","R","e","q","u","e","s","t">> (* errNewRequest *)
    [] e = "errCall" -> <<"e","r","r","C","a","l","l">>

\* http.StatusText: the reason phrase of a status code, "" when it has none
StatusText(code) ==
  CASE code = 200 -> <<"O","K">>
    [] code = 201 -> <<"C","r","e","a","t","e","d">>
    [] code = 400 -> <<"B","a","d"," ","R","e","q","u","e","s","t">> (* Bad Request *)
    [] code = 404 -> <<"N","o","t"," ","F","o","u","n","d">> (* Not Found *)
    [] code = 500 -> <<"I","n","t","e","r","n","a","l"," ","S","e","r","v","e","r"," ","E","r","r","o","r">> (* Internal Server Error *)
    [] OTHER -> <<>>

MethodGet == <<"G","E","T">>
MethodPost == <<"P","O","S","T">>
MethodPut == <<"P","U","T">>
MethodDelete == <<"D","E","L","E","T","E">>

----------------------------------------------------------------------------
(* The Connector: NewRequest builds a request or fails; Call executes it   *)
(* and returns an envelope, an error, both or neither.                     *)

StatusCodes == {200, 399, 400}

Envelopes == {NilPtr} \cup {[isNil |-> FALSE, Code |-> n] : n \in StatusCodes}

Connectors ==
  {[newRequestErr |-> "errNewRequest", callErr |-> NoErr, res |-> NilPtr]}
  \cup [newRequestErr : {NoErr}, callErr : {NoErr, "errCall"}, res : Envelopes]

\* c.NewRequest(ctx, method, endpoint, contentType, payload)
NewRequest(c, httpMethod, endpoint, contentType, payload) ==
  IF c.newRequestErr # NoErr
  THEN [req |-> NilPtr, err |-> c.newRequestErr]
  ELSE [req |-> [isNil |-> FALSE, method |-> httpMethod, endpoint |-> endpoint,
                 contentType |-> contentType, payload |-> payload],
        err |-> NoErr]

\* c.Call(request, target)
Call(c, req, target) == [res |-> c.res, err |-> c.callErr]

\* the record of a NewRequest invocation and of what it returned
NewRequestOp(httpMethod, endpoint, contentType, payload, out) ==
  [op |-> "NewRequest", method |-> httpMethod, endpoint |-> endpoint,
   contentType |-> contentType, payload |-> payload,
   req |-> out.req, err |-> out.err]

\* the record of a Call invocation and of what it returned
CallOp(req, target, out) ==
  [op |-> "Call", request |-> req, target |-> target,
   res |-> out.res, err |-> out.err]

----------------------------------------------------------------------------
(* Spans. *)

\* tracer.Start(ctx, name)
SpanStart(tracer, name) == [op |-> "span.Start", tracer |-> tracer, name |-> name]

\* attribute.String(key, value)
AttrString(key, value) == [key |-> key, type |-> "STRING", value |-> value]

\* attribute.Int(key, value)
AttrInt(key, value) == [key |-> key, type |-> "INT64", value |-> value]

\* span.SetAttributes(kv...)
SetAttributes(kvs) == [op |-> "span.SetAttributes", attrs |-> kvs]

\* span.SetStatus(code, description)
SetStatus(code, description) ==
  [op |-> "span.SetStatus", code |-> code, description |-> description]

\* span.RecordError(err)
RecordError(e) == [op |-> "span.RecordError", err |-> e]

\* span.End()
SpanEnd == [op |-> "span.End"]

\* return of a method that holds no span
Return(t, r, l) == [trace |-> t, ret |-> r, locals |-> l]

\* a return without the deferred span.End()
ReturnNoEnd(t, r, l) == [trace |-> t, ret |-> r, locals |-> l]

\* "defer span.End()": End runs as the method returns, after the returned
\* values are fixed
ReturnDeferEnd(t, r, l) == [trace |-> Append(t, SpanEnd), ret |-> r, locals |-> l]

\* the error path without span.RecordError
SpanFailNoRecord(e) == <<SetStatus("Error", ErrorText(e))>>

\* span.SetStatus(codes.Error, err.Error()); span.RecordError(err)
SpanFail(e) == <<SetStatus("Error", ErrorText(e)), RecordError(e)>>

Ret3(result, response, err) == [result |-> result, response |-> response, err |-> err]

Ret2(response, err) == [response |-> response, err |-> err]

----------------------------------------------------------------------------
(* admin/internal/organization_directory_impl.go *)

AdminTracer == <<"g","i","t","h","u","b",".","c","o","m","/","c","t","r","e","m","i","n","i","o","m","/","g","o","-","a","t","l","a","s","s","i","a","n","/","v","2","/","a","d","m","i","n">> (* github.com/ctreminiom/go-atlassian/v2/admin *)

\* the locals of a method that returned before building its endpoint
NoLocals == [built |-> FALSE]

\* the locals of a method that built an endpoint without a query
PathLocals(endpoint) == [built |-> TRUE, endpoint |-> endpoint, query |-> EmptyValues]

\* the locals of a method that built an endpoint with a query
QueryLocals(endpoint, query) == [built |-> TRUE, endpoint |-> endpoint, query |-> query]

\* the response step with the status compared by > instead of >=
RespondedAbove(res) ==
  IF ~res.isNil
  THEN <<SetAttributes(<<AttrInt(<<"h","t","t","p",".","s","t","a","t","u","s","_","c","o","d","e">> (* http.status_code *), res.Code)>>),
         IF res.Code > 400
         THEN SetStatus("Error", StatusText(res.Code))
         ELSE SetStatus("Ok", <<>>)>>
  ELSE <<>>

\* the response step without the status-code attribute
RespondedNoAttribute(res) ==
  IF ~res.isNil
  THEN <<IF res.Code >= 400
         THEN SetStatus("Error", StatusText(res.Code))
         ELSE SetStatus("Ok", <<>>)>>
  ELSE <<>>

\* the response step that marks the span ok when there is no envelope
RespondedNilIsOk(res) ==
  IF ~res.isNil
  THEN <<SetAttributes(<<AttrInt(<<"h","t","t","p",".","s","t","a","t","u","s","_","c","o","d","e">> (* http.status_code *), res.Code)>>),
         IF res.Code >= 400
         THEN SetStatus("Error", StatusText(res.Code))
         ELSE SetStatus("Ok", <<>>)>>
  ELSE <<SetStatus("Ok", <<>>)>>

\* "if res != nil { SetAttributes(http.status_code); SetStatus(...) }"
Responded(res) ==
  IF ~res.isNil
  THEN <<SetAttributes(<<AttrInt(<<"h","t","t","p",".","s","t","a","t","u","s","_","c","o","d","e">> (* http.status_code *), res.Code)>>),
         IF res.Code >= 400
         THEN SetStatus("Error", StatusText(res.Code))
         ELSE SetStatus("Ok", <<>>)>>
  ELSE <<>>

\* Activity that checks accountID before organizationID
ActivityAccountFirst(organizationID, accountID, c) ==
  LET t0 == <<SpanStart(AdminTracer, <<"a","d","m","i","n",".","o","r","g","a","n","i","z","a","t","i","o","n",".","d","i","r","e","c","t","o","r","y",".","a","c","t","i","v","i","t","y">> (* admin.organization.directory.activity *))>>
  IN
  IF accountID = <<>>
  THEN ReturnDeferEnd(t0 \o SpanFail(ErrNoAdminAccountID),
                      Ret3(NilPtr, NilPtr, ErrNoAdminAccountID), NoLocals)
  ELSE IF organizationID = <<>>
  THEN ReturnDeferEnd(t0 \o SpanFail(ErrNoAdminOrganization),
                      Ret3(NilPtr, NilPtr, ErrNoAdminOrganization), NoLocals)
  ELSE
  LET endpoint == <<"a","d","m","i","n","/","v","1","/","o","r","g","s","/">> (* admin/v1/orgs/ *) \o organizationID \o <<"/","d","i","r","e","c","t","o","r","y","/","u","s","e","r","s","/">> (* /directory/users/ *)
                    \o accountID \o <<"/","l","a","s","t","-","a","c","t","i","v","e","-","d","a","t","e","s">> (* /last-active-dates *)
      t1 == Append(t0, SetAttributes(<<
              AttrString(<<"h","t","t","p",".","m","e","t","h","o","d">> (* http.method *), MethodGet),
              AttrString(<<"h","t","t","p",".","u","r","l">>, endpoint),
              AttrString(<<"c","o","m","p","o","n","e","n","t">> (* component *), <<"g","o","-","a","t","l","a","s","s","i","a","n">> (* go-atlassian *)),
              AttrString(<<"m","o","d","u","l","e">>, <<"a","d","m","i","n">>),
              AttrString(<<"o","p","e","r","a","t","i","o","n">> (* operation *), <<"o","r","g","a","n","i","z","a","t","i","o","n",".","d","i","r","e","c","t","o","r","y",".","a","c","t","i","v","i","t","y">> (* organization.directory.activity *))>>))
      nr == NewRequest(c, MethodGet, endpoint, <<>>, NilPtr)
      t2 == Append(t1, NewRequestOp(MethodGet, endpoint, <<>>, NilPtr, nr))
  IN
  IF nr.err # NoErr
  THEN ReturnDeferEnd(t2 \o SpanFail(nr.err), Ret3(NilPtr, NilPtr, nr.err),
                      PathLocals(endpoint))
  ELSE
  LET activity == New("UserProductAccessScheme")
      cl == Call(c, nr.req, activity)
      t3 == Append(t2, CallOp(nr.req, activity, cl))
  IN
  IF cl.err # NoErr
  THEN ReturnDeferEnd(t3 \o SpanFail(cl.err), Ret3(NilPtr, cl.res, cl.err),
                      PathLocals(endpoint))
  ELSE ReturnDeferEnd(t3 \o Responded(cl.res), Ret3(activity, cl.res, NoErr),
                      PathLocals(endpoint))

Activity(organizationID, accountID, c) ==
  LET t0 == <<SpanStart(AdminTracer, <<"a","d","m","i","n",".","o","r","g","a","n","i","z","a","t","i","o","n",".","d","i","r","e","c","t","o","r","y",".","a","c","t","i","v","i","t","y">> (* admin.organization.directory.activity *))>>
  IN
  IF organizationID = <<>>
  THEN ReturnDeferEnd(t0 \o SpanFail(ErrNoAdminOrganization),
                      Ret3(NilPtr, NilPtr, ErrNoAdminOrganization), NoLocals)
  ELSE IF accountID = <<>>
  THEN ReturnDeferEnd(t0 \o SpanFail(ErrNoAdminAccountID),
                      Ret3(NilPtr, NilPtr, ErrNoAdminAccountID), NoLocals)
  ELSE
  LET endpoint == <<"a","d","m","i","n","/","v","1","/","o","r","g","s","/">> (* admin/v1/orgs/ *) \o organizationID \o <<"/","d","i","r","e","c","t","o","r","y","/","u","s","e","r","s","/">> (* /directory/users/ *)
                    \o accountID \o <<"/","l","a","s","t","-","a","c","t","i","v","e","-","d","a","t","e","s">> (* /last-active-dates *)
      t1 == Append(t0, SetAttributes(<<
              AttrString(<<"h","t","t","p",".","m","e","t","h","o","d">> (* http.method *), MethodGet),
              AttrString(<<"h","t","t","p",".","u","r","l">>, endpoint),
              AttrString(<<"c","o","m","p","o","n","e","n","t">> (* component *), <<"g","o","-","a","t","l","a","s","s","i","a","n">> (* go-atlassian *)),
              AttrString(<<"m","o","d","u","l","e">>, <<"a","d","m","i","n">>),
              AttrString(<<"o","p","e","r","a","t","i","o","n">> (* operation *), <<"o","r","g","a","n","i","z","a","t","i","o","n",".","d","i","r","e","c","t","o","r","y",".","a","c","t","i","v","i","t","y">> (* organization.directory.activity *))>>))
      nr == NewRequest(c, MethodGet, endpoint, <<>>, NilPtr)
      t2 == Append(t1, NewRequestOp(MethodGet, endpoint, <<>>, NilPtr, nr))
  IN
  IF nr.err # NoErr
  THEN ReturnDeferEnd(t2 \o SpanFail(nr.err), Ret3(NilPtr, NilPtr, nr.err),
                      PathLocals(endpoint))
  ELSE
  LET activity == New("UserProductAccessScheme")
      cl == Call(c, nr.req, activity)
      t3 == Append(t2, CallOp(nr.req, activity, cl))
  IN
  IF cl.err # NoErr
  THEN ReturnDeferEnd(t3 \o SpanFail(cl.err), Ret3(NilPtr, cl.res, cl.err),
                      PathLocals(endpoint))
  ELSE ReturnDeferEnd(t3 \o Responded(cl.res), Ret3(activity, cl.res, NoErr),
                      PathLocals(endpoint))

\* Remove that drops the envelope when Call fails
RemoveDropsEnvelope(organizationID, accountID, c) ==
  LET t0 == <<SpanStart(AdminTracer, <<"a","d","m","i","n",".","o","r","g","a","n","i","z","a","t","i","o","n",".","d","i","r","e","c","t","o","r","y",".","r","e","m","o","v","e">> (* admin.organization.directory.remove *))>>
  IN
  IF organizationID = <<>>
  THEN ReturnDeferEnd(t0 \o SpanFail(ErrNoAdminOrganization),
                      Ret2(NilPtr, ErrNoAdminOrganization), NoLocals)
  ELSE IF accountID = <<>>
  THEN ReturnDeferEnd(t0 \o SpanFail(ErrNoAdminAccountID),
                      Ret2(NilPtr, ErrNoAdminAccountID), NoLocals)
  ELSE
  LET endpoint == <<"a","d","m","i","n","/","v","1","/","o","r","g","s","/">> (* admin/v1/orgs/ *) \o organizationID \o <<"/","d","i","r","e","c","t","o","r","y","/","u","s","e","r","s","/">> (* /directory/users/ *)
                    \o accountID
      t1 == Append(t0, SetAttributes(<<
              AttrString(<<"h","t","t","p",".","m","e","t","h","o","d">> (* http.method *), MethodDelete),
              AttrString(<<"h","t","t","p",".","u","r","l">>, endpoint),
              AttrString(<<"c","o","m","p","o","n","e","n","t">> (* component *), <<"g","o","-","a","t","l","a","s","s","i","a","n">> (* go-atlassian *)),
              AttrString(<<"m","o","d","u","l","e">>, <<"a","d","m","i","n">>),
              AttrString(<<"o","p","e","r","a","t","i","o","n">> (* operation *), <<"o","r","g","a","n","i","z","a","t","i","o","n",".","d","i","r","e","c","t","o","r","y",".","r","e","m","o","v","e">> (* organization.directory.remove *))>>))
      nr == NewRequest(c, MethodDelete, endpoint, <<>>, NilPtr)
      t2 == Append(t1, NewRequestOp(MethodDelete, endpoint, <<>>, NilPtr, nr))
  IN
  IF nr.err # NoErr
  THEN ReturnDeferEnd(t2 \o SpanFail(nr.err), Ret2(NilPtr, nr.err),
                      PathLocals(endpoint))
  ELSE
  LET cl == Call(c, nr.req, NilPtr)
      t3 == Append(t2, CallOp(nr.req, NilPtr, cl))
  IN
  IF cl.err # NoErr
  THEN ReturnDeferEnd(t3 \o SpanFail(cl.err), Ret2(NilPtr, cl.err),
                      PathLocals(endpoint))
  ELSE ReturnDeferEnd(t3 \o Responded(cl.res), Ret2(cl.res, NoErr),
                      PathLocals(endpoint))

Remove(organizationID, accountID, c) ==
  LET t0 == <<SpanStart(AdminTracer, <<"a","d","m","i","n",".","o","r","g","a","n","i","z","a","t","i","o","n",".","d","i","r","e","c","t","o","r","y",".","r","e","m","o","v","e">> (* admin.organization.directory.remove *))>>
  IN
  IF organizationID = <<>>
  THEN ReturnDeferEnd(t0 \o SpanFail(ErrNoAdminOrganization),
                      Ret2(NilPtr, ErrNoAdminOrganization), NoLocals)
  ELSE IF accountID = <<>>
  THEN ReturnDeferEnd(t0 \o SpanFail(ErrNoAdminAccountID),
                      Ret2(NilPtr, ErrNoAdminAccountID), NoLocals)
  ELSE
  LET endpoint == <<"a","d","m","i","n","/","v","1","/","o","r","g","s","/">> (* admin/v1/orgs/ *) \o organizationID \o <<"/","d","i","r","e","c","t","o","r","y","/","u","s","e","r","s","/">> (* /directory/users/ *)
                    \o accountID
      t1 == Append(t0, SetAttributes(<<
              AttrString(<<"h","t","t","p",".","m","e","t","h","o","d">> (* http.method *), MethodDelete),
              AttrString(<<"h","t","t","p",".","u","r","l">>, endpoint),
              AttrString(<<"c","o","m","p","o","n","e","n","t">> (* component *), <<"g","o","-","a","t","l","a","s","s","i","a","n">> (* go-atlassian *)),
              AttrString(<<"m","o","d","u","l","e">>, <<"a","d","m","i","n">>),
              AttrString(<<"o","p","e","r","a","t","i","o","n">> (* operation *), <<"o","r","g","a","n","i","z","a","t","i","o","n",".","d","i","r","e","c","t","o","r","y",".","r","e","m","o","v","e">> (* organization.directory.remove *))>>))
      nr == NewRequest(c, MethodDelete, endpoint, <<>>, NilPtr)
      t2 == Append(t1, NewRequestOp(MethodDelete, endpoint, <<>>, NilPtr, nr))
  IN
  IF nr.err # NoErr
  THEN ReturnDeferEnd(t2 \o SpanFail(nr.err), Ret2(NilPtr, nr.err),
                      PathLocals(endpoint))
  ELSE
  LET cl == Call(c, nr.req, NilPtr)
      t3 == Append(t2, CallOp(nr.req, NilPtr, cl))
  IN
  IF cl.err # NoErr
  THEN ReturnDeferEnd(t3 \o SpanFail(cl.err), Ret2(cl.res, cl.err),
                      PathLocals(endpoint))
  ELSE ReturnDeferEnd(t3 \o Responded(cl.res), Ret2(cl.res, NoErr),
                      PathLocals(endpoint))

\* Suspend that returns its message when Call fails
SuspendKeepsMessage(organizationID, accountID, c) ==
  IF organizationID = <<>>
  THEN Return(<<>>, Ret3(NilPtr, NilPtr, ErrNoAdminOrganization), NoLocals)
  ELSE IF accountID = <<>>
  THEN Return(<<>>, Ret3(NilPtr, NilPtr, ErrNoAdminAccountID), NoLocals)
  ELSE
  LET endpoint == <<"a","d","m","i","n","/","v","1","/","o","r","g","s","/">> (* admin/v1/orgs/ *) \o organizationID \o <<"/","d","i","r","e","c","t","o","r","y","/","u","s","e","r","s","/">> (* /directory/users/ *)
                    \o accountID \o <<"/","s","u","s","p","e","n","d","-","a","c","c","e","s","s">> (* /suspend-access *)
      nr == NewRequest(c, MethodPost, endpoint, <<>>, NilPtr)
      t1 == <<NewRequestOp(MethodPost, endpoint, <<>>, NilPtr, nr)>>
  IN
  IF nr.err # NoErr
  THEN Return(t1, Ret3(NilPtr, NilPtr, nr.err), PathLocals(endpoint))
  ELSE
  LET message == New("GenericActionSuccessScheme")
      cl == Call(c, nr.req, message)
      t2 == Append(t1, CallOp(nr.req, message, cl))
  IN
  IF cl.err # NoErr
  THEN Return(t2, Ret3(message, cl.res, cl.err), PathLocals(endpoint))
  ELSE Return(t2, Ret3(message, cl.res, NoErr), PathLocals(endpoint))

Suspend(organizationID, accountID, c) ==
  IF organizationID = <<>>
  THEN Return(<<>>, Ret3(NilPtr, NilPtr, ErrNoAdminOrganization), NoLocals)
  ELSE IF accountID = <<>>
  THEN Return(<<>>, Ret3(NilPtr, NilPtr, ErrNoAdminAccountID), NoLocals)
  ELSE
  LET endpoint == <<"a","d","m","i","n","/","v","1","/","o","r","g","s","/">> (* admin/v1/orgs/ *) \o organizationID \o <<"/","d","i","r","e","c","t","o","r","y","/","u","s","e","r","s","/">> (* /directory/users/ *)
                    \o accountID \o <<"/","s","u","s","p","e","n","d","-","a","c","c","e","s","s">> (* /suspend-access *)
      nr == NewRequest(c, MethodPost, endpoint, <<>>, NilPtr)
      t1 == <<NewRequestOp(MethodPost, endpoint, <<>>, NilPtr, nr)>>
  IN
  IF nr.err # NoErr
  THEN Return(t1, Ret3(NilPtr, NilPtr, nr.err), PathLocals(endpoint))
  ELSE
  LET message == New("GenericActionSuccessScheme")
      cl == Call(c, nr.req, message)
      t2 == Append(t1, CallOp(nr.req, message, cl))
  IN
  IF cl.err # NoErr
  THEN Return(t2, Ret3(NilPtr, cl.res, cl.err), PathLocals(endpoint))
  ELSE Return(t2, Ret3(message, cl.res, NoErr), PathLocals(endpoint))

\* Restore that does not check accountID
RestoreUnchecked(organizationID, accountID, c) ==
  IF organizationID = <<>>
  THEN Return(<<>>, Ret3(NilPtr, NilPtr, ErrNoAdminOrganization), NoLocals)
  ELSE
  LET endpoint == <<"a","d","m","i","n","/","v","1","/","o","r","g","s","/">> (* admin/v1/orgs/ *) \o organizationID \o <<"/","d","i","r","e","c","t","o","r","y","/","u","s","e","r","s","/">> (* /directory/users/ *)
                    \o accountID \o <<"/","r","e","s","t","o","r","e","-","a","c","c","e","s","s">> (* /restore-access *)
      nr == NewRequest(c, MethodPost, endpoint, <<>>, NilPtr)
      t1 == <<NewRequestOp(MethodPost, endpoint, <<>>, NilPtr, nr)>>
  IN
  IF nr.err # NoErr
  THEN Return(t1, Ret3(NilPtr, NilPtr, nr.err), PathLocals(endpoint))
  ELSE
  LET message == New("GenericActionSuccessScheme")
      cl == Call(c, nr.req, message)
      t2 == Append(t1, CallOp(nr.req, message, cl))
  IN
  IF cl.err # NoErr
  THEN Return(t2, Ret3(NilPtr, cl.res, cl.err), PathLocals(endpoint))
  ELSE Return(t2, Ret3(message, cl.res, NoErr), PathLocals(endpoint))

Restore(organizationID, accountID, c) ==
  IF organizationID = <<>>
  THEN Return(<<>>, Ret3(NilPtr, NilPtr, ErrNoAdminOrganization), NoLocals)
  ELSE IF accountID = <<>>
  THEN Return(<<>>, Ret3(NilPtr, NilPtr, ErrNoAdminAccountID), NoLocals)
  ELSE
  LET endpoint == <<"a","d","m","i","n","/","v","1","/","o","r","g","s","/">> (* admin/v1/orgs/ *) \o organizationID \o <<"/","d","i","r","e","c","t","o","r","y","/","u","s","e","r","s","/">> (* /directory/users/ *)
                    \o accountID \o <<"/","r","e","s","t","o","r","e","-","a","c","c","e","s","s">> (* /restore-access *)
      nr == NewRequest(c, MethodPost, endpoint, <<>>, NilPtr)
      t1 == <<NewRequestOp(MethodPost, endpoint, <<>>, NilPtr, nr)>>
  IN
  IF nr.err # NoErr
  THEN Return(t1, Ret3(NilPtr, NilPtr, nr.err), PathLocals(endpoint))
  ELSE
  LET message == New("GenericActionSuccessScheme")
      cl == Call(c, nr.req, message)
      t2 == Append(t1, CallOp(nr.req, message, cl))
  IN
  IF cl.err # NoErr
  THEN Return(t2, Ret3(NilPtr, cl.res, cl.err), PathLocals(endpoint))
  ELSE Return(t2, Ret3(message, cl.res, NoErr), PathLocals(endpoint))

----------------------------------------------------------------------------
(* confluence/internal/comment_content_impl.go *)

\* Gets that attaches the request attributes after NewRequest returned
GetsAttributesLate(contentID, expand, location, startAt, maxResults, c) ==
  LET t0 == <<SpanStart(<<"g","i","t","h","u","b",".","c","o","m","/","c","t","r","e","m","i","n","i","o","m","/","g","o","-","a","t","l","a","s","s","i","a","n","/","v","2","/","c","o","n","f","l","u","e","n","c","e">> (* github.com/ctreminiom/go-atlassian/v2/confluence *),
                        <<"c","o","n","f","l","u","e","n","c","e",".","c","o","n","t","e","n","t",".","c","o","m","m","e","n","t",".","g","e","t","s">> (* confluence.content.comment.gets *))>>
  IN
  IF contentID = <<>>
  THEN ReturnDeferEnd(t0 \o SpanFail(ErrNoContentID),
                      Ret3(NilPtr, NilPtr, ErrNoContentID), NoLocals)
  ELSE
  LET q0 == Add(EmptyValues, <<"s","t","a","r","t">>, Itoa(startAt))
      q1 == Add(q0, <<"l","i","m","i","t">>, Itoa(maxResults))
      q2 == IF GoLen(expand) # 0
            THEN Add(q1, <<"e","x","p","a","n","d">>, Join(expand.elems, <<",">>))
            ELSE q1
      query == IF GoLen(location) # 0
               THEN Add(q2, <<"l","o","c","a","t","i","o","n">>, Join(location.elems, <<",">>))
               ELSE q2
      endpoint == <<"w","i","k","i","/","r","e","s","t","/","a","p","i","/","c","o","n","t","e","n","t","/">> (* wiki/rest/api/content/ *) \o contentID \o <<"/","c","h","i","l","d","/","c","o","m","m","e","n","t","?">> (* /child/comment? *)
                    \o Encode(query)
      nr == NewRequest(c, MethodGet, endpoint, <<>>, NilPtr)
      t1 == Append(t0, NewRequestOp(MethodGet, endpoint, <<>>, NilPtr, nr))
      t2 == Append(t1, SetAttributes(<<
              AttrString(<<"h","t","t","p",".","m","e","t","h","o","d">> (* http.method *), MethodGet),
              AttrString(<<"h","t","t","p",".","u","r","l">>, endpoint),
              AttrString(<<"c","o","m","p","o","n","e","n","t">> (* component *), <<"g","o","-","a","t","l","a","s","s","i","a","n">> (* go-atlassian *)),
              AttrString(<<"m","o","d","u","l","e">>, <<"c","o","n","f","l","u","e","n","c","e">> (* confluence *)),
              AttrString(<<"o","p","e","r","a","t","i","o","n">> (* operation *), <<"c","o","n","t","e","n","t",".","c","o","m","m","e","n","t",".","g","e","t","s">> (* content.comment.gets *)),
              AttrString(<<"c","o","n","t","e","n","t",".","i","d">> (* content.id *), contentID),
              AttrInt(<<"p","a","g","i","n","a","t","i","o","n",".","s","t","a","r","t">> (* pagination.start *), startAt),
              AttrInt(<<"p","a","g","i","n","a","t","i","o","n",".","l","i","m","i","t">> (* pagination.limit *), maxResults)>>))
  IN
  IF nr.err # NoErr
  THEN ReturnDeferEnd(t2 \o SpanFail(nr.err), Ret3(NilPtr, NilPtr, nr.err),
                      QueryLocals(endpoint, query))
  ELSE
  LET page == New("ContentPageScheme")
      cl == Call(c, nr.req, page)
      t3 == Append(t2, CallOp(nr.req, page, cl))
  IN
  IF cl.err # NoErr
  THEN ReturnDeferEnd(t3 \o SpanFail(cl.err), Ret3(NilPtr, cl.res, cl.err),
                      QueryLocals(endpoint, query))
  ELSE ReturnDeferEnd(t3 \o Responded(cl.res), Ret3(page, cl.res, NoErr),
                      QueryLocals(endpoint, query))

Gets(contentID, expand, location, startAt, maxResults, c) ==
  LET t0 == <<SpanStart(<<"g","i","t","h","u","b",".","c","o","m","/","c","t","r","e","m","i","n","i","o","m","/","g","o","-","a","t","l","a","s","s","i","a","n","/","v","2","/","c","o","n","f","l","u","e","n","c","e">> (* github.com/ctreminiom/go-atlassian/v2/confluence *),
                        <<"c","o","n","f","l","u","e","n","c","e",".","c","o","n","t","e","n","t",".","c","o","m","m","e","n","t",".","g","e","t","s">> (* confluence.content.comment.gets *))>>
  IN
  IF contentID = <<>>
  THEN ReturnDeferEnd(t0 \o SpanFail(ErrNoContentID),
                      Ret3(NilPtr, NilPtr, ErrNoContentID), NoLocals)
  ELSE
  LET q0 == Add(EmptyValues, <<"s","t","a","r","t">>, Itoa(startAt))
      q1 == Add(q0, <<"l","i","m","i","t">>, Itoa(maxResults))
      q2 == IF GoLen(expand) # 0
            THEN Add(q1, <<"e","x","p","a","n","d">>, Join(expand.elems, <<",">>))
            ELSE q1
      query == IF GoLen(location) # 0
               THEN Add(q2, <<"l","o","c","a","t","i","o","n">>, Join(location.elems, <<",">>))
               ELSE q2
      endpoint == <<"w","i","k","i","/","r","e","s","t","/","a","p","i","/","c","o","n","t","e","n","t","/">> (* wiki/rest/api/content/ *) \o contentID \o <<"/","c","h","i","l","d","/","c","o","m","m","e","n","t","?">> (* /child/comment? *)
                    \o Encode(query)
      t1 == Append(t0, SetAttributes(<<
              AttrString(<<"h","t","t","p",".","m","e","t","h","o","d">> (* http.method *), MethodGet),
              AttrString(<<"h","t","t","p",".","u","r","l">>, endpoint),
              AttrString(<<"c","o","m","p","o","n","e","n","t">> (* component *), <<"g","o","-","a","t","l","a","s","s","i","a","n">> (* go-atlassian *)),
              AttrString(<<"m","o","d","u","l","e">>, <<"c","o","n","f","l","u","e","n","c","e">> (* confluence *)),
              AttrString(<<"o","p","e","r","a","t","i","o","n">> (* operation *), <<"c","o","n","t","e","n","t",".","c","o","m","m","e","n","t",".","g","e","t","s">> (* content.comment.gets *)),
              AttrString(<<"c","o","n","t","e","n","t",".","i","d">> (* content.id *), contentID),
              AttrInt(<<"p","a","g","i","n","a","t","i","o","n",".","s","t","a","r","t">> (* pagination.start *), startAt),
              AttrInt(<<"p","a","g","i","n","a","t","i","o","n",".","l","i","m","i","t">> (* pagination.limit *), maxResults)>>))
      nr == NewRequest(c, MethodGet, endpoint, <<>>, NilPtr)
      t2 == Append(t1, NewRequestOp(MethodGet, endpoint, <<>>, NilPtr, nr))
  IN
  IF nr.err # NoErr
  THEN ReturnDeferEnd(t2 \o SpanFail(nr.err), Ret3(NilPtr, NilPtr, nr.err),
                      QueryLocals(endpoint, query))
  ELSE
  LET page == New("ContentPageScheme")
      cl == Call(c, nr.req, page)
      t3 == Append(t2, CallOp(nr.req, page, cl))
  IN
  IF cl.err # NoErr
  THEN ReturnDeferEnd(t3 \o SpanFail(cl.err), Ret3(NilPtr, cl.res, cl.err),
                      QueryLocals(endpoint, query))
  ELSE ReturnDeferEnd(t3 \o Responded(cl.res), Ret3(page, cl.res, NoErr),
                      QueryLocals(endpoint, query))

----------------------------------------------------------------------------
(* confluence/internal/template_impl.go *)

TemplateCreate(payload, c) ==
  LET endpoint == <<"/","w","i","k","i","/","r","e","s","t","/","a","p","i","/","t","e","m","p","l","a","t","e">> (* /wiki/rest/api/template *)
      nr == NewRequest(c, MethodPost, endpoint, <<>>, payload)
      t1 == <<NewRequestOp(MethodPost, endpoint, <<>>, payload, nr)>>
  IN
  IF nr.err # NoErr
  THEN Return(t1, Ret3(NilPtr, NilPtr, nr.err), PathLocals(endpoint))
  ELSE
  LET result == New("ContentTemplateScheme")
      cl == Call(c, nr.req, result)
      t2 == Append(t1, CallOp(nr.req, result, cl))
  IN
  IF cl.err # NoErr
  THEN Return(t2, Ret3(NilPtr, cl.res, cl.err), PathLocals(endpoint))
  ELSE Return(t2, Ret3(result, cl.res, NoErr), PathLocals(endpoint))

TemplateUpdate(payload, c) ==
  LET endpoint == <<"/","w","i","k","i","/","r","e","s","t","/","a","p","i","/","t","e","m","p","l","a","t","e">> (* /wiki/rest/api/template *)
      nr == NewRequest(c, MethodPut, endpoint, <<>>, payload)
      t1 == <<NewRequestOp(MethodPut, endpoint, <<>>, payload, nr)>>
  IN
  IF nr.err # NoErr
  THEN Return(t1, Ret3(NilPtr, NilPtr, nr.err), PathLocals(endpoint))
  ELSE
  LET result == New("ContentTemplateScheme")
      cl == Call(c, nr.req, result)
      t2 == Append(t1, CallOp(nr.req, result, cl))
  IN
  IF cl.err # NoErr
  THEN Return(t2, Ret3(NilPtr, cl.res, cl.err), PathLocals(endpoint))
  ELSE Return(t2, Ret3(result, cl.res, NoErr), PathLocals(endpoint))

\* Get that returns a second allocation instead of the decoded target
TemplateGetOtherResult(templateID, c) ==
  LET endpoint == <<"/","w","i","k","i","/","r","e","s","t","/","a","p","i","/","t","e","m","p","l","a","t","e","/">> (* /wiki/rest/api/template/ *) \o templateID
      nr == NewRequest(c, MethodGet, endpoint, <<>>, NilPtr)
      t1 == <<NewRequestOp(MethodGet, endpoint, <<>>, NilPtr, nr)>>
  IN
  IF nr.err # NoErr
  THEN Return(t1, Ret3(NilPtr, NilPtr, nr.err), PathLocals(endpoint))
  ELSE
  LET result == New("ContentTemplateScheme")
      cl == Call(c, nr.req, result)
      t2 == Append(t1, CallOp(nr.req, result, cl))
  IN
  IF cl.err # NoErr
  THEN Return(t2, Ret3(NilPtr, cl.res, cl.err), PathLocals(endpoint))
  ELSE Return(t2, Ret3([result EXCEPT !.addr = 2], cl.res, NoErr), PathLocals(endpoint))

TemplateGet(templateID, c) ==
  LET endpoint == <<"/","w","i","k","i","/","r","e","s","t","/","a","p","i","/","t","e","m","p","l","a","t","e","/">> (* /wiki/rest/api/template/ *) \o templateID
      nr == NewRequest(c, MethodGet, endpoint, <<>>, NilPtr)
      t1 == <<NewRequestOp(MethodGet, endpoint, <<>>, NilPtr, nr)>>
  IN
  IF nr.err # NoErr
  THEN Return(t1, Ret3(NilPtr, NilPtr, nr.err), PathLocals(endpoint))
  ELSE
  LET result == New("ContentTemplateScheme")
      cl == Call(c, nr.req, result)
      t2 == Append(t1, CallOp(nr.req, result, cl))
  IN
  IF cl.err # NoErr
  THEN Return(t2, Ret3(NilPtr, cl.res, cl.err), PathLocals(endpoint))
  ELSE Return(t2, Ret3(result, cl.res, NoErr), PathLocals(endpoint))

----------------------------------------------------------------------------
(* jira/internal/search_impl_adf.go *)

\* Checks that calls a second time when Call fails
SearchChecksRetry(version, payload, c) ==
  LET endpoint == <<"r","e","s","t","/","a","p","i","/">> (* rest/api/ *) \o version \o <<"/","j","q","l","/","m","a","t","c","h">> (* /jql/match *)
      nr == NewRequest(c, MethodPost, endpoint, <<>>, payload)
      t1 == <<NewRequestOp(MethodPost, endpoint, <<>>, payload, nr)>>
  IN
  IF nr.err # NoErr
  THEN Return(t1, Ret3(NilPtr, NilPtr, nr.err), PathLocals(endpoint))
  ELSE
  LET issues == New("IssueMatchesPageScheme")
      cl == Call(c, nr.req, issues)
      t2 == Append(t1, CallOp(nr.req, issues, cl))
  IN
  IF cl.err # NoErr
  THEN Return(Append(t2, CallOp(nr.req, issues, cl)), Ret3(NilPtr, cl.res, cl.err),
              PathLocals(endpoint))
  ELSE Return(t2, Ret3(issues, cl.res, NoErr), PathLocals(endpoint))

SearchChecks(version, payload, c) ==
  LET endpoint == <<"r","e","s","t","/","a","p","i","/">> (* rest/api/ *) \o version \o <<"/","j","q","l","/","m","a","t","c","h">> (* /jql/match *)
      nr == NewRequest(c, MethodPost, endpoint, <<>>, payload)
      t1 == <<NewRequestOp(MethodPost, endpoint, <<>>, payload, nr)>>
  IN
  IF nr.err # NoErr
  THEN Return(t1, Ret3(NilPtr, NilPtr, nr.err), PathLocals(endpoint))
  ELSE
  LET issues == New("IssueMatchesPageScheme")
      cl == Call(c, nr.req, issues)
      t2 == Append(t1, CallOp(nr.req, issues, cl))
  IN
  IF cl.err # NoErr
  THEN Return(t2, Ret3(NilPtr, cl.res, cl.err), PathLocals(endpoint))
  ELSE Return(t2, Ret3(issues, cl.res, NoErr), PathLocals(endpoint))

\* Get that leaves maxResults out of the query when it is zero
SearchGetOmitsZero(version, jql, nextPageToken, maxResults, fields, expands, properties, fieldsByKey, failFast, reconcileIssues, c) ==
  IF jql = <<>>
  THEN Return(<<>>, Ret3(NilPtr, NilPtr, ErrNoJQL), NoLocals)
  ELSE
  LET p0 == Add(EmptyValues, <<"j","q","l">>, jql)
      p1 == IF ~nextPageToken.isNil
            THEN Add(p0, <<"n","e","x","t","P","a","g","e","T","o","k","e","n">> (* nextPageToken *), nextPageToken.val)
            ELSE p0
      p2 == IF maxResults # 0
            THEN Add(p1, <<"m","a","x","R","e","s","u","l","t","s">> (* maxResults *), Itoa(maxResults))
            ELSE p1
      p3 == Add(p2, <<"f","i","e","l","d","s","B","y","K","e","y">> (* fieldsByKey *), FormatBool(fieldsByKey))
      p4 == Add(p3, <<"f","a","i","l","F","a","s","t">>, FormatBool(failFast))
      p5 == IF GoLen(expands) # 0
            THEN Add(p4, <<"e","x","p","a","n","d">>, Join(expands.elems, <<",">>))
            ELSE p4
      p6 == IF GoLen(fields) # 0
            THEN Add(p5, <<"f","i","e","l","d","s">>, Join(fields.elems, <<",">>))
            ELSE p5
      p7 == IF GoLen(properties) # 0
            THEN Add(p6, <<"p","r","o","p","e","r","t","i","e","s">> (* properties *), Join(properties.elems, <<",">>))
            ELSE p6
      params == IF GoLen(reconcileIssues) # 0
                THEN Add(p7, <<"r","e","c","o","n","c","i","l","e","I","s","s","u","e","s">> (* reconcileIssues *),
                         Join(Fields(Sprint(reconcileIssues.elems)), <<",">>))
                ELSE p7
      endpoint == <<"r","e","s","t","/","a","p","i","/">> (* rest/api/ *) \o version \o <<"/","s","e","a","r","c","h","/","j","q","l","?">> (* /search/jql? *) \o Encode(params)
      nr == NewRequest(c, MethodGet, endpoint, <<>>, NilPtr)
      t1 == <<NewRequestOp(MethodGet, endpoint, <<>>, NilPtr, nr)>>
  IN
  IF nr.err # NoErr
  THEN Return(t1, Ret3(NilPtr, NilPtr, nr.err), QueryLocals(endpoint, params))
  ELSE
  LET issues == New("IssueSearchScheme")
      cl == Call(c, nr.req, issues)
      t2 == Append(t1, CallOp(nr.req, issues, cl))
  IN
  IF cl.err # NoErr
  THEN Return(t2, Ret3(NilPtr, cl.res, cl.err), QueryLocals(endpoint, params))
  ELSE Return(t2, Ret3(issues, cl.res, NoErr), QueryLocals(endpoint, params))

SearchGet(version, jql, nextPageToken, maxResults, fields, expands, properties, fieldsByKey, failFast, reconcileIssues, c) ==
  IF jql = <<>>
  THEN Return(<<>>, Ret3(NilPtr, NilPtr, ErrNoJQL), NoLocals)
  ELSE
  LET p0 == Add(EmptyValues, <<"j","q","l">>, jql)
      p1 == IF ~nextPageToken.isNil
            THEN Add(p0, <<"n","e","x","t","P","a","g","e","T","o","k","e","n">> (* nextPageToken *), nextPageToken.val)
            ELSE p0
      p2 == Add(p1, <<"m","a","x","R","e","s","u","l","t","s">> (* maxResults *), Itoa(maxResults))
      p3 == Add(p2, <<"f","i","e","l","d","s","B","y","K","e","y">> (* fieldsByKey *), FormatBool(fieldsByKey))
      p4 == Add(p3, <<"f","a","i","l","F","a","s","t">>, FormatBool(failFast))
      p5 == IF GoLen(expands) # 0
            THEN Add(p4, <<"e","x","p","a","n","d">>, Join(expands.elems, <<",">>))
            ELSE p4
      p6 == IF GoLen(fields) # 0
            THEN Add(p5, <<"f","i","e","l","d","s">>, Join(fields.elems, <<",">>))
            ELSE p5
      p7 == IF GoLen(properties) # 0
            THEN Add(p6, <<"p","r","o","p","e","r","t","i","e","s">> (* properties *), Join(properties.elems, <<",">>))
            ELSE p6
      params == IF GoLen(reconcileIssues) # 0
                THEN Add(p7, <<"r","e","c","o","n","c","i","l","e","I","s","s","u","e","s">> (* reconcileIssues *),
                         Join(Fields(Sprint(reconcileIssues.elems)), <<",">>))
                ELSE p7
      endpoint == <<"r","e","s","t","/","a","p","i","/">> (* rest/api/ *) \o version \o <<"/","s","e","a","r","c","h","/","j","q","l","?">> (* /search/jql? *) \o Encode(params)
      nr == NewRequest(c, MethodGet, endpoint, <<>>, NilPtr)
      t1 == <<NewRequestOp(MethodGet, endpoint, <<>>, NilPtr, nr)>>
  IN
  IF nr.err # NoErr
  THEN Return(t1, Ret3(NilPtr, NilPtr, nr.err), QueryLocals(endpoint, params))
  ELSE
  LET issues == New("IssueSearchScheme")
      cl == Call(c, nr.req, issues)
      t2 == Append(t1, CallOp(nr.req, issues, cl))
  IN
  IF cl.err # NoErr
  THEN Return(t2, Ret3(NilPtr, cl.res, cl.err), QueryLocals(endpoint, params))
  ELSE Return(t2, Ret3(issues, cl.res, NoErr), QueryLocals(endpoint, params))

SearchPost(version, jql, nextPageToken, maxResults, fields, expands, properties, fieldsByKey, failFast, reconcileIssues, c) ==
  LET payload == [isNil |-> FALSE,
                  Jql |-> jql,
                  NextPageToken |-> nextPageToken,
                  MaxResults |-> maxResults,
                  Fields |-> fields,
                  Expand |-> expands,
                  Properties |-> properties,
                  FieldsByKey |-> fieldsByKey,
                  FailFast |-> failFast,
                  ReconcileIssues |-> reconcileIssues]
      endpoint == <<"r","e","s","t","/","a","p","i","/">> (* rest/api/ *) \o version \o <<"/","s","e","a","r","c","h","/","j","q","l">> (* /search/jql *)
      nr == NewRequest(c, MethodPost, endpoint, <<>>, payload)
      t1 == <<NewRequestOp(MethodPost, endpoint, <<>>, payload, nr)>>
  IN
  IF nr.err # NoErr
  THEN Return(t1, Ret3(NilPtr, NilPtr, nr.err), PathLocals(endpoint))
  ELSE
  LET issues == New("IssueSearchScheme")
      cl == Call(c, nr.req, issues)
      t2 == Append(t1, CallOp(nr.req, issues, cl))
  IN
  IF cl.err # NoErr
  THEN Return(t2, Ret3(NilPtr, cl.res, cl.err), PathLocals(endpoint))
  ELSE Return(t2, Ret3(issues, cl.res, NoErr), PathLocals(endpoint))

----------------------------------------------------------------------------
(* The span helpers of a module's tracing surface. *)

\* StartSpan(ctx, spanName)
StartSpan(spanName) ==
  SpanStart(<<"g","i","t","h","u","b",".","c","o","m","/","c","t","r","e","m","i","n","i","o","m","/","g","o","-","a","t","l","a","s","s","i","a","n","/","v","2","/","a","s","s","e","t","s">> (* github.com/ctreminiom/go-atlassian/v2/assets *), spanName)

\* SetSpanAttributes(span, method, endpoint)
SetSpanAttributes(httpMethod, endpoint) ==
  <<SetAttributes(<<AttrString(<<"h","t","t","p",".","m","e","t","h","o","d">> (* http.method *), httpMethod),
                    AttrString(<<"h","t","t","p",".","u","r","l">>, endpoint),
                    AttrString(<<"c","o","m","p","o","n","e","n","t">> (* component *), <<"g","o","-","a","t","l","a","s","s","i","a","n">> (* go-atlassian *)),
                    AttrString(<<"m","o","d","u","l","e">>, <<"a","s","s","e","t","s">>)>>)>>

\* SetSpanError(span, err)
SetSpanError(e) ==
  IF e # NoErr THEN <<SetStatus("Error", ErrorText(e)), RecordError(e)>> ELSE <<>>

\* SetSpanResponse(span, statusCode)
SetSpanResponse(statusCode) ==
  <<SetAttributes(<<AttrInt(<<"h","t","t","p",".","s","t","a","t","u","s","_","c","o","d","e">> (* http.status_code *), statusCode)>>),
    IF statusCode >= 400
    THEN SetStatus("Error", StatusText(statusCode))
    ELSE SetStatus("Ok", <<>>)>>

\* FinishSpan(span)
FinishSpan == <<SpanEnd>>

\* the assets part of the tracing demonstration: start a span, annotate it,
\* classify the response, finish the span
AssetsDemo(statusCode) ==
  LET t == <<StartSpan(<<"t","e","s","t",".","a","s","s","e","t","s",".","o","p","e","r","a","t","i","o","n">> (* test.assets.operation *))>>
             \o SetSpanAttributes(MethodPut, <<"/","a","s","s","e","t","s","/","t","e","s","t">> (* /assets/test *))
             \o SetSpanResponse(statusCode)
             \o FinishSpan
  IN Return(t, [void |-> TRUE], PathLocals(<<"/","a","s","s","e","t","s","/","t","e","s","t">> (* /assets/test *)))

----------------------------------------------------------------------------
(* Inputs. *)

OrganizationIDs == {<<>>, <<"o","1">>}
AccountIDs == {<<>>, <<"O","R","G","-","1">>}
ContentIDs == {<<>>, <<"1","0","1">>}
TemplateIDs == {<<>>, <<"7">>}
JQLs == {<<>>, <<"a","=","b">>}
Versions == {<<"3">>}
PageTokens == {NilPtr, [isNil |-> FALSE, val |-> <<"t">>]}
StartAts == 0..MaxStartAt
PageSizes == {0, 25}
DemoStatusCodes == {200, 201, 399, 400, 500}

\* the elements of caller-supplied lists
Elements == {<<"a">>, <<"b">>}

\* nil, and every list of at most MaxList elements
StringSlices ==
  {NilSlice} \cup {Slice(s) : s \in UNION {[1..n -> Elements] : n \in 0..MaxList}}

FewSlices == {NilSlice, Slice(<<>>), Slice(<<<<"b">>, <<"a">>>>)}

PropertySlices == {NilSlice, Slice(<<<<"p">>, <<"q">>>>)}

IntSlices == {NilSlice, Slice(<<>>), Slice(<<7>>), Slice(<<10, 2>>)}

CreatePayloads == {NilPtr, [isNil |-> FALSE, type |-> "CreateTemplateScheme"]}
UpdatePayloads == {NilPtr, [isNil |-> FALSE, type |-> "UpdateTemplateScheme"]}
CheckPayloads == {NilPtr, [isNil |-> FALSE, type |-> "IssueSearchCheckPayloadScheme"]}

AdminMethods == {"Activity", "Remove", "Suspend", "Restore"}

----------------------------------------------------------------------------
(* The state machine: a caller invokes one method at a time. *)

NoArgs == [none |-> TRUE]
NoPrev == [none |-> TRUE]
NoRet == [none |-> TRUE]
IdleConn == [newRequestErr |-> NoErr, callErr |-> NoErr, res |-> NilPtr]

Init ==
  /\ pc = "idle"
  /\ method = "none"
  /\ args = NoArgs
  /\ conn = IdleConn
  /\ trace = <<>>
  /\ ret = NoRet
  /\ locals = NoLocals
  /\ prev = NoPrev

\* the method runs to its return against Connector c
Invoke(m, a, c, out) ==
  /\ pc' = "done"
  /\ method' = m
  /\ args' = a
  /\ conn' = c
  /\ trace' = out.trace
  /\ ret' = out.ret
  /\ locals' = out.locals

InvokeActivity ==
  /\ pc = "idle"
  /\ \E o \in OrganizationIDs, a \in AccountIDs, c \in Connectors :
       Invoke("Activity", [organizationID |-> o, accountID |-> a], c, Activity(o, a, c))
  /\ UNCHANGED prev

InvokeRemove ==
  /\ pc = "idle"
  /\ \E o \in OrganizationIDs, a \in AccountIDs, c \in Connectors :
       Invoke("Remove", [organizationID |-> o, accountID |-> a], c, Remove(o, a, c))
  /\ UNCHANGED prev

InvokeSuspend ==
  /\ pc = "idle"
  /\ \E o \in OrganizationIDs, a \in AccountIDs, c \in Connectors :
       Invoke("Suspend", [organizationID |-> o, accountID |-> a], c, Suspend(o, a, c))
  /\ UNCHANGED prev

InvokeRestore ==
  /\ pc = "idle"
  /\ \E o \in OrganizationIDs, a \in AccountIDs, c \in Connectors :
       Invoke("Restore", [organizationID |-> o, accountID |-> a], c, Restore(o, a, c))
  /\ UNCHANGED prev

\* the method m of the organization directory service
AdminMethod(m, o, a, c) ==
  CASE m = "Activity" -> Activity(o, a, c)
    [] m = "Remove" -> Remove(o, a, c)
    [] m = "Suspend" -> Suspend(o, a, c)
    [] m = "Restore" -> Restore(o, a, c)

\* a second organization directory method is invoked with the same
\* identifiers on the same service, whose Connector behaves as before
InvokeNextAdmin ==
  /\ pc = "done"
  /\ method \in AdminMethods
  /\ prev = NoPrev
  /\ prev' = [method |-> method, ret |-> ret, trace |-> trace]
  /\ \E m \in AdminMethods :
       Invoke(m, args, conn, AdminMethod(m, args.organizationID, args.accountID, conn))

InvokeGets ==
  /\ pc = "idle"
  /\ \E id \in ContentIDs, expand \in StringSlices, location \in StringSlices,
        startAt \in StartAts, maxResults \in PageSizes, c \in Connectors :
       Invoke("Gets",
              [contentID |-> id, expand |-> expand, location |-> location,
               startAt |-> startAt, maxResults |-> maxResults],
              c, Gets(id, expand, location, startAt, maxResults, c))
  /\ UNCHANGED prev

InvokeTemplateCreate ==
  /\ pc = "idle"
  /\ \E p \in CreatePayloads, c \in Connectors :
       Invoke("TemplateCreate", [payload |-> p], c, TemplateCreate(p, c))
  /\ UNCHANGED prev

InvokeTemplateUpdate ==
  /\ pc = "idle"
  /\ \E p \in UpdatePayloads, c \in Connectors :
       Invoke("TemplateUpdate", [payload |-> p], c, TemplateUpdate(p, c))
  /\ UNCHANGED prev

InvokeTemplateGet ==
  /\ pc = "idle"
  /\ \E id \in TemplateIDs, c \in Connectors :
       Invoke("TemplateGet", [templateID |-> id], c, TemplateGet(id, c))
  /\ UNCHANGED prev

InvokeSearchChecks ==
  /\ pc = "idle"
  /\ \E v \in Versions, p \in CheckPayloads, c \in Connectors :
       Invoke("SearchChecks", [version |-> v, payload |-> p], c, SearchChecks(v, p, c))
  /\ UNCHANGED prev

InvokeSearchGet ==
  /\ pc = "idle"
  /\ \E v \in Versions, jql \in JQLs, token \in PageTokens, maxResults \in PageSizes,
        fields \in FewSlices, expands \in StringSlices, properties \in PropertySlices,
        fieldsByKey \in BOOLEAN, failFast \in BOOLEAN, reconcileIssues \in IntSlices,
        c \in Connectors :
       Invoke("SearchGet",
              [version |-> v, jql |-> jql, nextPageToken |-> token,
               maxResults |-> maxResults, fields |-> fields, expands |-> expands,
               properties |-> properties, fieldsByKey |-> fieldsByKey,
               failFast |-> failFast, reconcileIssues |-> reconcileIssues],
              c, SearchGet(v, jql, token, maxResults, fields, expands, properties,
                           fieldsByKey, failFast, reconcileIssues, c))
  /\ UNCHANGED prev

InvokeSearchPost ==
  /\ pc = "idle"
  /\ \E v \in Versions, jql \in JQLs, token \in PageTokens, maxResults \in PageSizes,
        fields \in FewSlices, expands \in FewSlices, properties \in PropertySlices,
        fieldsByKey \in BOOLEAN, failFast \in BOOLEAN, reconcileIssues \in IntSlices,
        c \in Connectors :
       Invoke("SearchPost",
              [version |-> v, jql |-> jql, nextPageToken |-> token,
               maxResults |-> maxResults, fields |-> fields, expands |-> expands,
               properties |-> properties, fieldsByKey |-> fieldsByKey,
               failFast |-> failFast, reconcileIssues |-> reconcileIssues],
              c, SearchPost(v, jql, token, maxResults, fields, expands, properties,
                            fieldsByKey, failFast, reconcileIssues, c))
  /\ UNCHANGED prev

RunAssetsDemo ==
  /\ pc = "idle"
  /\ \E code \in DemoStatusCodes :
       Invoke("AssetsDemo", [statusCode |-> code], IdleConn, AssetsDemo(code))
  /\ UNCHANGED prev

\* the caller is done with the returned values
Finish ==
  /\ pc = "done"
  /\ pc' = "idle"
  /\ method' = "none"
  /\ args' = NoArgs
  /\ conn' = IdleConn
  /\ trace' = <<>>
  /\ ret' = NoRet
  /\ locals' = NoLocals
  /\ prev' = NoPrev

Next ==
  \/ InvokeActivity
  \/ InvokeRemove
  \/ InvokeSuspend
  \/ InvokeRestore
  \/ InvokeNextAdmin
  \/ InvokeGets
  \/ InvokeTemplateCreate
  \/ InvokeTemplateUpdate
  \/ InvokeTemplateGet
  \/ InvokeSearchChecks
  \/ InvokeSearchGet
  \/ InvokeSearchPost
  \/ RunAssetsDemo
  \/ Finish

Spec == Init /\ [][Next]_vars

----------------------------------------------------------------------------
(* Properties. *)

TracedMethods == {"Activity", "Remove", "Gets"}

\* the methods that return a typed result
TypedMethods ==
  {"Activity", "Suspend", "Restore", "Gets", "SearchChecks", "SearchGet",
   "SearchPost", "TemplateCreate", "TemplateUpdate", "TemplateGet"}

ServiceMethods == TypedMethods \cup {"Remove"}

\* the positions of the operations named o in a trace
At(t, o) == {i \in DOMAIN t : t[i].op = o}

\* the positions of the Connector operations in a trace
ConnectorAt(t) == At(t, "NewRequest") \cup At(t, "Call")

RECURSIVE OpNames(_)
\* the names of the Connector operations of a trace, in order
OpNames(t) ==
  IF Len(t) = 0 THEN <<>>
  ELSE IF Head(t).op \in {"NewRequest", "Call"}
       THEN <<[op |-> Head(t).op, err |-> Head(t).err]>> \o OpNames(Tail(t))
       ELSE OpNames(Tail(t))

\* whether the returned typed result is nil (Remove returns none)
ResultIsNil(m, r) == IF m \in TypedMethods THEN r.result.isNil ELSE TRUE

\* the sentinels of the required identifiers that are empty in this call
EmptySentinels ==
  IF method \in AdminMethods
  THEN (IF args.organizationID = <<>> THEN {ErrNoAdminOrganization} ELSE {})
         \cup (IF args.accountID = <<>> THEN {ErrNoAdminAccountID} ELSE {})
  ELSE IF method = "Gets"
  THEN (IF args.contentID = <<>> THEN {ErrNoContentID} ELSE {})
  ELSE IF method = "SearchGet"
  THEN (IF args.jql = <<>> THEN {ErrNoJQL} ELSE {})
  ELSE {}

\* C1: Activity, Remove, Suspend, Restore, Gets and search Get called with an
\* empty required identifier return the sentinel of an empty identifier, a
\* nil result and a nil envelope, and invoke neither NewRequest nor Call.
C1_EmptyIdentifierRejected ==
  (pc = "done" /\ EmptySentinels # {}) =>
    /\ ret.err \in EmptySentinels
    /\ ResultIsNil(method, ret)
    /\ ret.response = NilPtr
    /\ ConnectorAt(trace) = {}

C1_Witness ==
  /\ pc = "done"
  /\ method = "SearchGet"
  /\ args.jql = <<>>
  /\ ret = Ret3(NilPtr, NilPtr, ErrNoJQL)
  /\ trace = <<>>

\* C2: in Activity, Remove, Suspend and Restore an empty organizationID gives
\* ErrNoAdminOrganization whatever accountID is, and ErrNoAdminAccountID is
\* returned exactly when organizationID is non-empty and accountID is empty.
C2_FirstFailingCheckWins ==
  (pc = "done" /\ method \in AdminMethods) =>
    /\ args.organizationID = <<>> => ret.err = ErrNoAdminOrganization
    /\ ret.err = ErrNoAdminAccountID
         <=> (args.organizationID # <<>> /\ args.accountID = <<>>)
    /\ ret.err = ErrNoAdminOrganization <=> args.organizationID = <<>>

C2_Witness ==
  /\ pc = "done"
  /\ method = "Activity"
  /\ args.organizationID = <<>>
  /\ args.accountID = <<"O","R","G","-","1">>
  /\ ret.err = ErrNoAdminOrganization

\* C3: every invocation of Activity, Remove or Gets starts exactly one span,
\* as its first operation, and ends it exactly once, as its last operation
\* before the return, on every exit path.
C3_SpanStartedAndEndedOnce ==
  (pc = "done" /\ method \in TracedMethods) =>
    /\ At(trace, "span.Start") = {1}
    /\ At(trace, "span.End") = {Len(trace)}
    /\ Len(trace) >= 2

\* a Call failure, the last of the four exit paths, with its span closed
C3_Witness ==
  /\ pc = "done"
  /\ method = "Gets"
  /\ ret.err = "errCall"
  /\ At(trace, "span.Start") = {1}
  /\ At(trace, "span.End") = {Len(trace)}

\* what a caller sees of a return: whether the result is nil, the envelope
\* and the error
Seen(m, r) == [resultIsNil |-> ResultIsNil(m, r), response |-> r.response, err |-> r.err]

\* C4: run against the same Connector behaviour with the same identifiers,
\* the traced Activity returns the same (result nil or not, envelope, error)
\* and makes the same sequence of Connector calls as the untraced Suspend or
\* Restore.
C4_TracingChangesNothing ==
  (/\ pc = "done"
   /\ prev # NoPrev
   /\ \/ (prev.method = "Activity" /\ method \in {"Suspend", "Restore"})
      \/ (prev.method \in {"Suspend", "Restore"} /\ method = "Activity")) =>
    /\ Seen(prev.method, prev.ret) = Seen(method, ret)
    /\ OpNames(prev.trace) = OpNames(trace)

\* Activity after Suspend, the Call failing with a non-nil envelope
C4_Witness ==
  /\ pc = "done"
  /\ prev # NoPrev
  /\ prev.method = "Suspend"
  /\ method = "Activity"
  /\ ret.err = "errCall"
  /\ ~ret.response.isNil
  /\ Len(OpNames(trace)) = 2

\* the status a span ends with: that of the last SetStatus, Unset when there
\* is none
SpanStatus(t) ==
  IF At(t, "span.SetStatus") = {}
  THEN [code |-> "Unset", description |-> <<>>]
  ELSE LET i == CHOOSE i \in At(t, "span.SetStatus") :
                  \A j \in At(t, "span.SetStatus") : j <= i
       IN [code |-> t[i].code, description |-> t[i].description]

\* the span's status is the classification of status code n
Classified(t, n) ==
  IF n >= 400
  THEN SpanStatus(t) = [code |-> "Error", description |-> StatusText(n)]
  ELSE SpanStatus(t) = [code |-> "Ok", description |-> <<>>]

\* C5: a status code >= 400 marks the span as error, with the code's reason
\* phrase as description, and a status code < 400 marks it as ok, both in
\* SetSpanResponse and in the responded step of Activity, Remove and Gets.
C5_StatusClassification ==
  pc = "done" =>
    /\ method = "AssetsDemo" => Classified(trace, args.statusCode)
    /\ (method \in TracedMethods /\ ret.err = NoErr /\ ~ret.response.isNil) =>
         Classified(trace, ret.response.Code)

\* exactly 400 is an error
C5_Witness ==
  /\ pc = "done"
  /\ method = "Remove"
  /\ ret.err = NoErr
  /\ ~ret.response.isNil
  /\ ret.response.Code = 400
  /\ SpanStatus(trace) = [code |-> "Error", description |-> <<"B","a","d"," ","R","e","q","u","e","s","t">> (* Bad Request *)]

\* s contains sub as a substring
Contains(s, sub) ==
  \E i \in 0..(Len(s) - Len(sub)) : SubSeq(s, i + 1, i + Len(sub)) = sub

\* the part of an endpoint after its first "?"
QueryString(endpoint) ==
  LET q == CHOOSE i \in DOMAIN endpoint :
             endpoint[i] = "?" /\ \A j \in 1..(i - 1) : endpoint[j] # "?"
  IN SubSeq(endpoint, q + 1, Len(endpoint))

\* a Gets call with a contentID, startAt=0, maxResults=25, expand=["a","b"] and
\* no location has reached NewRequest
PagedGets ==
  /\ pc = "done"
  /\ method = "Gets"
  /\ args.contentID # <<>>
  /\ args.startAt = 0
  /\ args.maxResults = 25
  /\ args.expand = Slice(<<<<"a">>, <<"b">>>>)
  /\ GoLen(args.location) = 0

\* C6 as claimed: the endpoint passed to NewRequest contains
\* start=0&limit=25&expand=a,b
C6_AsClaimed ==
  PagedGets =>
    \A i \in At(trace, "NewRequest") :
      Contains(QueryString(trace[i].endpoint), <<"s","t","a","r","t","=","0","&","l","i","m","i","t","=","2","5","&","e","x","p","a","n","d","=","a",",","b">> (* start=0&limit=25&expand=a,b *))

\* C6, amended: the endpoint passed to NewRequest has the query string
\* expand=a%2Cb&limit=25&start=0: the keys are in alphabetical order and the
\* comma joining the expand values is percent-encoded.
C6_SortedAndEscaped ==
  PagedGets =>
    /\ At(trace, "NewRequest") # {}
    /\ \A i \in At(trace, "NewRequest") :
         QueryString(trace[i].endpoint) = <<"e","x","p","a","n","d","=","a","%","2","C","b","&","l","i","m","i","t","=","2","5","&","s","t","a","r","t","=","0">> (* expand=a%2Cb&limit=25&start=0 *)

C6_Witness ==
  /\ PagedGets
  /\ args.location = NilSlice
  /\ \E i \in At(trace, "NewRequest") :
       trace[i].endpoint =
         <<"w","i","k","i","/","r","e","s","t","/","a","p","i","/","c","o","n","t","e","n","t","/","1","0","1","/","c","h","i","l","d","/","c","o","m","m","e","n","t","?","e","x","p","a","n","d","=","a","%","2","C","b","&","l","i","m","i","t","=","2","5","&","s","t","a","r","t","=","0">> (* wiki/rest/api/content/101/child/comment?expand=a%2Cb&limit=25&start=0 *)

RECURSIVE CommaJoined(_)
\* the elements of a list of strings, separated by commas, in the list's order
CommaJoined(strs) ==
  IF Len(strs) = 0 THEN <<>>
  ELSE IF Len(strs) = 1 THEN strs[1]
  ELSE strs[1] \o <<",">> \o CommaJoined(Tail(strs))

\* the decimal numerals of a list of integers
Numerals(ns) == [i \in DOMAIN ns |-> Itoa(ns[i])]

\* a multi-value parameter in a query: one entry holding the comma-joined
\* elements when the list is non-empty, no entry when it is nil or empty
MultiValue(query, key, strs) ==
  IF Len(strs) # 0
  THEN key \in DOMAIN query /\ query[key] = <<CommaJoined(strs)>>
  ELSE key \notin DOMAIN query

\* the multi-value parameters of comment Gets
GetsMultiValues ==
  /\ MultiValue(locals.query, <<"e","x","p","a","n","d">>, args.expand.elems)
  /\ MultiValue(locals.query, <<"l","o","c","a","t","i","o","n">>, args.location.elems)

\* the string-valued multi-value parameters of search Get
SearchGetStringMultiValues ==
  /\ MultiValue(locals.query, <<"e","x","p","a","n","d">>, args.expands.elems)
  /\ MultiValue(locals.query, <<"f","i","e","l","d","s">>, args.fields.elems)
  /\ MultiValue(locals.query, <<"p","r","o","p","e","r","t","i","e","s">> (* properties *), args.properties.elems)

\* C7: every multi-value query parameter (expand and location of comment Gets;
\* expand, fields, properties and reconcileIssues of search Get) has, when its
\* list is non-empty, exactly one entry whose value is the list's elements
\* joined by commas in the caller's order, and has no entry when the list is
\* nil or empty.
C7_MultiValueCommaJoined ==
  (pc = "done" /\ locals.built) =>
    /\ method = "Gets" => GetsMultiValues
    /\ method = "SearchGet" =>
         /\ SearchGetStringMultiValues
         /\ MultiValue(locals.query, <<"r","e","c","o","n","c","i","l","e","I","s","s","u","e","s">> (* reconcileIssues *),
                       Numerals(args.reconcileIssues.elems))

\* C8: for every method that returns a typed result, the result is non-nil
\* exactly when the error is nil; with a nil error the result is the target
\* that was passed to Connector.Call, with a non-nil error it is nil.
C8_ResultIffNoError ==
  (pc = "done" /\ method \in TypedMethods) =>
    /\ ~ret.result.isNil <=> ret.err = NoErr
    /\ ret.err = NoErr =>
         /\ At(trace, "Call") # {}
         /\ \A i \in At(trace, "Call") : ret.result = trace[i].target
    /\ ret.err # NoErr => ret.result = NilPtr

\* a failed call: nil result, non-nil envelope, non-nil error
C8_Witness ==
  /\ pc = "done"
  /\ method = "TemplateGet"
  /\ ret.err = "errCall"
  /\ ret.result = NilPtr
  /\ ~ret.response.isNil

\* C9: an error of NewRequest is returned as it is with a nil envelope; an
\* error of Call is returned as it is, with the envelope Call returned.
C9_ErrorsPropagatedUnchanged ==
  (pc = "done" /\ method \in ServiceMethods) =>
    /\ \A i \in At(trace, "NewRequest") :
         trace[i].err # NoErr => (ret.err = trace[i].err /\ ret.response = NilPtr)
    /\ \A i \in At(trace, "Call") :
         trace[i].err # NoErr => (ret.err = trace[i].err /\ ret.response = trace[i].res)

\* the traced Remove passes on a Call error with its non-nil envelope
C9_Witness ==
  /\ pc = "done"
  /\ method = "Remove"
  /\ \E i \in At(trace, "Call") :
       /\ trace[i].err = "errCall"
       /\ ~trace[i].res.isNil
       /\ ret = Ret2(trace[i].res, "errCall")

\* C10: an invocation invokes NewRequest at most once and Call at most once,
\* Call only after NewRequest returned without error and with the request it
\* returned, and no Connector operation after one that failed.
C10_NoRetries ==
  (pc = "done" /\ method \in ServiceMethods) =>
    /\ Cardinality(At(trace, "NewRequest")) <= 1
    /\ Cardinality(At(trace, "Call")) <= 1
    /\ \A j \in At(trace, "Call") :
         \E i \in At(trace, "NewRequest") :
           i < j /\ trace[i].err = NoErr /\ trace[j].request = trace[i].req
    /\ \A i \in ConnectorAt(trace) :
         trace[i].err # NoErr => \A j \in ConnectorAt(trace) : j <= i

\* a failing Call, after which the method returns
C10_Witness ==
  /\ pc = "done"
  /\ method = "SearchChecks"
  /\ Cardinality(At(trace, "NewRequest")) = 1
  /\ Cardinality(At(trace, "Call")) = 1
  /\ ret.err = "errCall"

\* every operation named o of trace t comes before the span's End
BeforeEnd(t, o) == \A i \in At(t, o) : \A e \in At(t, "span.End") : i < e

\* C11: when Activity, Remove or Gets returns a non-nil error (a sentinel, a
\* NewRequest error or a Call error), the span was, before it ended, set to
\* status error with that error's message, and that error was recorded on it
\* exactly once.
C11_ReturnedErrorIsOnSpan ==
  (pc = "done" /\ method \in TracedMethods /\ ret.err # NoErr) =>
    /\ SpanStatus(trace) = [code |-> "Error", description |-> ErrorText(ret.err)]
    /\ Cardinality(At(trace, "span.RecordError")) = 1
    /\ \A i \in At(trace, "span.RecordError") : trace[i].err = ret.err
    /\ BeforeEnd(trace, "span.SetStatus")
    /\ BeforeEnd(trace, "span.RecordError")
    /\ At(trace, "span.End") # {}

\* the NewRequest error of Gets, on its ended span
C11_Witness ==
  /\ pc = "done"
  /\ method = "Gets"
  /\ ret.err = "errNewRequest"
  /\ SpanStatus(trace) = [code |-> "Error", description |-> <<"e","r","r","N","e","w","R","e","q","u","e","s","t">> (* errNewRequest *)]
  /\ \E i \in At(trace, "span.RecordError") : trace[i].err = "errNewRequest"
  /\ At(trace, "span.End") = {Len(trace)}

\* the values of the attributes with the given key that were attached to the
\* span
AttrValues(t, key) ==
  UNION {{t[i].attrs[k].value :
            k \in {k \in DOMAIN t[i].attrs : t[i].attrs[k].key = key}} :
         i \in At(t, "span.SetAttributes")}

\* the span carries the status code of envelope res and is classified from it
CarriesStatusCode(t, res) ==
  /\ AttrValues(t, <<"h","t","t","p",".","s","t","a","t","u","s","_","c","o","d","e">> (* http.status_code *)) = {res.Code}
  /\ Classified(t, res.Code)
  /\ BeforeEnd(t, "span.SetAttributes")
  /\ BeforeEnd(t, "span.SetStatus")

\* C12 as claimed: whenever Call returns a non-nil envelope, with or without
\* an error, the span carries http.status_code equal to the envelope's code by
\* the time it ends, and its status is classified from that code.
C12_AsClaimed ==
  (pc = "done" /\ method \in TracedMethods) =>
    \A j \in At(trace, "Call") :
      ~trace[j].res.isNil => CarriesStatusCode(trace, trace[j].res)

\* C12, amended: whenever Call returns a non-nil envelope and a nil error, the
\* span carries http.status_code equal to the envelope's code by the time it
\* ends and its status is classified from that code; when Call returns an
\* error, no http.status_code is attached, whatever the envelope.
C12_StatusCodeOnSuccess ==
  (pc = "done" /\ method \in TracedMethods) =>
    \A j \in At(trace, "Call") :
      /\ (~trace[j].res.isNil /\ trace[j].err = NoErr) =>
           CarriesStatusCode(trace, trace[j].res)
      /\ trace[j].err # NoErr => AttrValues(trace, <<"h","t","t","p",".","s","t","a","t","u","s","_","c","o","d","e">> (* http.status_code *)) = {}

\* Activity answered 399 without an error: the attribute is 399, the status ok
C12_Witness ==
  /\ pc = "done"
  /\ method = "Activity"
  /\ ret.err = NoErr
  /\ ~ret.response.isNil
  /\ ret.response.Code = 399
  /\ AttrValues(trace, <<"h","t","t","p",".","s","t","a","t","u","s","_","c","o","d","e">> (* http.status_code *)) = {399}
  /\ SpanStatus(trace).code = "Ok"

\* the keys of the attributes attached to the span
AttrKeys(t) ==
  UNION {{t[i].attrs[k].key : k \in DOMAIN t[i].attrs} :
         i \in At(t, "span.SetAttributes")}

\* the attribute keys every traced method attaches before the network call
RequestAttrKeys ==
  {<<"h","t","t","p",".","m","e","t","h","o","d">> (* http.method *), <<"h","t","t","p",".","u","r","l">>, <<"c","o","m","p","o","n","e","n","t">> (* component *), <<"m","o","d","u","l","e">>, <<"o","p","e","r","a","t","i","o","n">> (* operation *)}

\* the domain attribute keys of comment Gets
GetsAttrKeys == {<<"c","o","n","t","e","n","t",".","i","d">> (* content.id *), <<"p","a","g","i","n","a","t","i","o","n",".","s","t","a","r","t">> (* pagination.start *), <<"p","a","g","i","n","a","t","i","o","n",".","l","i","m","i","t">> (* pagination.limit *)}

\* the span's name is the module attribute, a dot and the operation attribute
SpanNameQualified(t) ==
  \E mod \in AttrValues(t, <<"m","o","d","u","l","e">>), oper \in AttrValues(t, <<"o","p","e","r","a","t","i","o","n">> (* operation *)) :
    /\ AttrValues(t, <<"m","o","d","u","l","e">>) = {mod}
    /\ AttrValues(t, <<"o","p","e","r","a","t","i","o","n">> (* operation *)) = {oper}
    /\ \A i \in At(t, "span.Start") : t[i].name = mod \o <<".">> \o oper

\* C13: in every invocation of Activity, Remove or Gets that reaches
\* NewRequest, http.method, http.url, component, module and operation (and
\* content.id, pagination.start, pagination.limit for Gets) were attached to
\* the span before NewRequest was invoked, http.method and http.url are the
\* method and endpoint passed to NewRequest, and the span's name is the module
\* attribute, a dot and the operation attribute.
C13_AttributesBeforeRequest ==
  (pc = "done" /\ method \in TracedMethods) =>
    \A n \in At(trace, "NewRequest") :
      LET before == SubSeq(trace, 1, n - 1)
      IN /\ RequestAttrKeys \subseteq AttrKeys(before)
         /\ method = "Gets" => GetsAttrKeys \subseteq AttrKeys(before)
         /\ AttrValues(before, <<"h","t","t","p",".","m","e","t","h","o","d">> (* http.method *)) = {trace[n].method}
         /\ AttrValues(before, <<"h","t","t","p",".","u","r","l">>) = {trace[n].endpoint}
         /\ At(before, "span.Start") # {}
         /\ SpanNameQualified(before)

\* Gets reached NewRequest with its eight attributes attached before it
C13_Witness ==
  /\ pc = "done"
  /\ method = "Gets"
  /\ At(trace, "NewRequest") = {3}
  /\ trace[1].name = <<"c","o","n","f","l","u","e","n","c","e",".","c","o","n","t","e","n","t",".","c","o","m","m","e","n","t",".","g","e","t","s">> (* confluence.content.comment.gets *)
  /\ AttrKeys(SubSeq(trace, 1, 2)) = RequestAttrKeys \cup GetsAttrKeys
  /\ AttrValues(SubSeq(trace, 1, 2), <<"h","t","t","p",".","u","r","l">>) = {trace[3].endpoint}

\* the invocation was rejected before any network call: a non-nil error, a
\* nil result, a nil envelope and no Connector operation
RejectedAtOnce ==
  /\ ret.err # NoErr
  /\ ret.result = NilPtr
  /\ ret.response = NilPtr
  /\ ConnectorAt(trace) = {}

\* C14: template Get called with an empty templateID and search Post called
\* with an empty jql return at once with a non-nil error, a nil result and a
\* nil envelope, and invoke neither NewRequest nor Call.
C14_EmptyIdentifierValidated ==
  pc = "done" =>
    /\ (method = "TemplateGet" /\ args.templateID = <<>>) => RejectedAtOnce
    /\ (method = "SearchPost" /\ args.jql = <<>>) => RejectedAtOnce

\* C15: every comment Gets that passes validation sends exactly one start
\* entry and exactly one limit entry holding the decimal values of startAt and
\* maxResults, also when they are 0; every search Get that passes validation
\* sends exactly one maxResults entry, also when maxResults is 0.
C15_PaginationAlwaysSent ==
  pc = "done" =>
    /\ (method = "Gets" /\ args.contentID # <<>>) =>
         /\ locals.built
         /\ <<"s","t","a","r","t">> \in DOMAIN locals.query
         /\ <<"l","i","m","i","t">> \in DOMAIN locals.query
         /\ locals.query[<<"s","t","a","r","t">>] = <<Numerals(<<args.startAt>>)[1]>>
         /\ locals.query[<<"l","i","m","i","t">>] = <<Numerals(<<args.maxResults>>)[1]>>
         /\ \A n \in At(trace, "NewRequest") :
              /\ Contains(<<"&">> \o QueryString(trace[n].endpoint) \o <<"&">>,
                          <<"&","s","t","a","r","t","=">> \o locals.query[<<"s","t","a","r","t">>][1] \o <<"&">>)
              /\ Contains(<<"&">> \o QueryString(trace[n].endpoint) \o <<"&">>,
                          <<"&","l","i","m","i","t","=">> \o locals.query[<<"l","i","m","i","t">>][1] \o <<"&">>)
    /\ (method = "SearchGet" /\ args.jql # <<>>) =>
         /\ locals.built
         /\ <<"m","a","x","R","e","s","u","l","t","s">> (* maxResults *) \in DOMAIN locals.query
         /\ locals.query[<<"m","a","x","R","e","s","u","l","t","s">> (* maxResults *)] = <<Numerals(<<args.maxResults>>)[1]>>
         /\ \A n \in At(trace, "NewRequest") :
              Contains(<<"&">> \o QueryString(trace[n].endpoint) \o <<"&">>,
                       <<"&","m","a","x","R","e","s","u","l","t","s","=">> (* &maxResults= *) \o locals.query[<<"m","a","x","R","e","s","u","l","t","s">> (* maxResults *)][1] \o <<"&">>)

\* search Get with maxResults = 0 sends maxResults=0
C15_Witness ==
  /\ pc = "done"
  /\ method = "SearchGet"
  /\ args.jql # <<>>
  /\ args.maxResults = 0
  /\ locals.built
  /\ locals.query[<<"m","a","x","R","e","s","u","l","t","s">> (* maxResults *)] = <<<<"0">>>>
  /\ \E n \in At(trace, "NewRequest") :
       Contains(QueryString(trace[n].endpoint), <<"m","a","x","R","e","s","u","l","t","s","=","0">> (* maxResults=0 *))

\* C16: when Call returns a nil error and a nil envelope, Activity, Remove and
\* Gets return a nil error and a nil envelope, and the span is ended with its
\* status never set and without an http.status_code attribute; no invocation
\* sets the span status more than once.
C16_NilEnvelopeLeavesStatusUnset ==
  (pc = "done" /\ method \in TracedMethods) =>
    /\ Cardinality(At(trace, "span.SetStatus")) <= 1
    /\ \A j \in At(trace, "Call") :
         (trace[j].err = NoErr /\ trace[j].res.isNil) =>
           /\ ret.err = NoErr
           /\ ret.response = NilPtr
           /\ At(trace, "span.SetStatus") = {}
           /\ AttrValues(trace, <<"h","t","t","p",".","s","t","a","t","u","s","_","c","o","d","e">> (* http.status_code *)) = {}
           /\ At(trace, "span.End") = {Len(trace)}

\* Remove answered with neither an envelope nor an error
C16_Witness ==
  /\ pc = "done"
  /\ method = "Remove"
  /\ \E j \in At(trace, "Call") : trace[j].err = NoErr /\ trace[j].res.isNil
  /\ ret = Ret2(NilPtr, NoErr)
  /\ SpanStatus(trace).code = "Unset"
  /\ At(trace, "span.End") = {Len(trace)}

====
